---- MODULE Spec2Model ----
(***************************************************************************)
(* Model of refine_bib.py: the entry-resolution pipeline of main() and the *)
(* DBLP client (DBLPSearcher.search_by_title, download_bibtex_from_dblp),  *)
(* and BibtexEntry.to_bibtex, _balance_braces and the BibtexParser applied *)
(* to text.  Text is modelled as sequences of one-character strings.       *)
(***************************************************************************)
EXTENDS Integers, Sequences, FiniteSets, TLC

\* ------------------------------------------------------------------------
\* Bounds of the model
\* ------------------------------------------------------------------------
MaxEntries == 2
MaxHits == 2
MaxBraceText == 4
MaxFields == 3
MaxRawValue == 4

\* DBLPSearcher.__init__: max_retries defaults to 3 and main never overrides it
max_retries == 3

\* Python's None (kept a record so that it compares with records)
None == [tag |-> "None"]

\* ------------------------------------------------------------------------
\* Text helpers (str.strip, str.lower, the `in` substring test, re.sub)
\* ------------------------------------------------------------------------
Whitespace == {" ", "\n", "\t"}

UPPER == <<"A","B","C","D","E","F","G","H","I","J","K","L","M",
           "N","O","P","Q","R","S","T","U","V","W","X","Y","Z">>
LOWER == <<"a","b","c","d","e","f","g","h","i","j","k","l","m",
           "n","o","p","q","r","s","t","u","v","w","x","y","z">>

LowerChar(c) ==
    IF \E k \in 1..Len(UPPER) : UPPER[k] = c
    THEN LOWER[CHOOSE k \in 1..Len(UPPER) : UPPER[k] = c]
    ELSE c

\* str.lower()
lower(s) == [k \in 1..Len(s) |-> LowerChar(s[k])]

\* `needle in text` for strings
Contains(text, needle) ==
    \E k \in 0..(Len(text) - Len(needle)) :
        SubSeq(text, k + 1, k + Len(needle)) = needle

RECURSIVE lstrip(_)
lstrip(s) ==
    IF s # <<>> /\ Head(s) \in Whitespace THEN lstrip(Tail(s)) ELSE s

RECURSIVE rstrip(_)
rstrip(s) ==
    IF s # <<>> /\ s[Len(s)] \in Whitespace
    THEN rstrip(SubSeq(s, 1, Len(s) - 1))
    ELSE s

\* str.strip()
strip(s) == rstrip(lstrip(s))

IsBrace(c) == c \in {"{", "}"}
NotBrace(c) == ~IsBrace(c)

\* re.sub(r'[{}]', '', s)
remove_braces(s) == SelectSeq(s, NotBrace)

\* re.sub(r'\s+', ' ', s): every maximal run of whitespace becomes one space
RECURSIVE collapse_ws(_)
collapse_ws(s) ==
    IF s = <<>> THEN <<>>
    ELSE IF Head(s) \in Whitespace
         THEN <<" ">> \o collapse_ws(lstrip(s))
         ELSE <<Head(s)>> \o collapse_ws(Tail(s))

\* ------------------------------------------------------------------------
\* BibtexEntry
\* ------------------------------------------------------------------------
\* BibtexEntry.__init__: the entry type is lower-cased
BibtexEntry(entry_type, cite_key, fields) ==
    [entry_type |-> lower(entry_type), cite_key |-> cite_key, fields |-> fields]

\* BibtexEntry.get_title
get_title(entry) ==
    LET raw == IF "title" \in DOMAIN entry.fields
               THEN entry.fields["title"] ELSE <<>>
    IN strip(collapse_ws(remove_braces(strip(raw))))

\* BibtexEntry._balance_braces, the scan: <<kept characters, unmatched opens>>
RECURSIVE balance_scan(_, _, _)
balance_scan(text, result, brace_count) ==
    IF text = <<>> THEN <<result, brace_count>>
    ELSE LET char == Head(text) IN
         IF char = "{"
         THEN balance_scan(Tail(text), Append(result, char), brace_count + 1)
         ELSE IF char = "}"
              THEN IF brace_count > 0
                   THEN balance_scan(Tail(text), Append(result, char), brace_count - 1)
                   ELSE balance_scan(Tail(text), result, brace_count)
              ELSE balance_scan(Tail(text), Append(result, char), brace_count)

\* the scan alone, no closing brace added for the opening ones left unmatched
balance_braces_unclosed(text) == balance_scan(strip(text), <<>>, 0)[1]

\* BibtexEntry._balance_braces
balance_braces(text) ==
    LET scanned == balance_scan(strip(text), <<>>, 0)
    IN scanned[1] \o [k \in 1..scanned[2] |-> "}"]

\* str.find(','): 0 when absent, else the 1-based position of the first comma
find_comma(value) ==
    IF \E k \in 1..Len(value) : value[k] = ","
    THEN CHOOSE k \in 1..Len(value) :
             value[k] = "," /\ \A j \in 1..(k - 1) : value[j] # ","
    ELSE 0

\* to_bibtex: the fields kept, in emission order
essential_fields ==
    <<"author", "title", "booktitle", "journal", "year", "pages", "volume", "number">>

\* the text of each essential field name
FieldNameText ==
    [author    |-> <<"a","u","t","h","o","r">>,
     title     |-> <<"t","i","t","l","e">>,
     booktitle |-> <<"b","o","o","k","t","i","t","l","e">>,
     journal   |-> <<"j","o","u","r","n","a","l">>,
     year      |-> <<"y","e","a","r">>,
     pages     |-> <<"p","a","g","e","s">>,
     volume    |-> <<"v","o","l","u","m","e">>,
     number    |-> <<"n","u","m","b","e","r">>]

\* to_bibtex lines 46-53: the booktitle clean-up
clean_booktitle(value) ==
    LET comma_pos == find_comma(value)
        cut == IF comma_pos # 0 THEN strip(SubSeq(value, 1, comma_pos - 1)) ELSE value
    IN strip(collapse_ws(balance_braces(cut)))

\* to_bibtex lines 56-61: wrap the value in braces or leave it bare
format_value(key, value) ==
    IF key \in {"title", "booktitle", "journal", "author"}
    THEN <<"{">> \o value \o <<"}">>
    ELSE IF \E k \in 1..Len(value) : value[k] \in {" ", "-", ":", "/", "."}
         THEN <<"{">> \o value \o <<"}">>
         ELSE value

\* the line of an essential field written whenever the record has the field
field_lines_present(entry, key) ==
    IF key \in DOMAIN entry.fields
    THEN LET raw == entry.fields[key]
             value == IF key = "booktitle" THEN clean_booktitle(raw) ELSE raw
         IN << <<" ", " ">> \o FieldNameText[key] \o <<" ", "=", " ">>
               \o format_value(key, value) \o <<",">> >>
    ELSE <<>>

\* to_bibtex lines 42-62: the line of one essential field, none when skipped
field_lines(entry, key) ==
    IF key \in DOMAIN entry.fields /\ entry.fields[key] # <<>>
    THEN LET raw == entry.fields[key]
             value == IF key = "booktitle" THEN clean_booktitle(raw) ELSE raw
         IN << <<" ", " ">> \o FieldNameText[key] \o <<" ", "=", " ">>
               \o format_value(key, value) \o <<",">> >>
    ELSE <<>>

RECURSIVE all_field_lines(_, _)
all_field_lines(entry, keys) ==
    IF keys = <<>> THEN <<>>
    ELSE field_lines(entry, Head(keys)) \o all_field_lines(entry, Tail(keys))

\* "\n".join(lines)
RECURSIVE join_lines(_)
join_lines(lines) ==
    IF lines = <<>> THEN <<>>
    ELSE IF Len(lines) = 1 THEN lines[1]
         ELSE lines[1] \o <<"\n">> \o join_lines(Tail(lines))

\* BibtexEntry.to_bibtex
to_bibtex(entry) ==
    join_lines(<< <<"@">> \o entry.entry_type \o <<"{">> \o entry.cite_key \o <<",">> >>
               \o all_field_lines(entry, essential_fields)
               \o << <<"}">> >>)

\* ------------------------------------------------------------------------
\* BibtexParser._parse_fields lines 143-150: the clean-up of a matched value
\* ------------------------------------------------------------------------
Quotes == {"\"", "'"}

\* re.sub(r',\s*$', '', value): a comma with only whitespace after it, and
\* that whitespace, go (the first such comma is the last comma of the text)
remove_trailing_comma(value) ==
    LET tail == rstrip(value)
    IN IF tail # <<>> /\ tail[Len(tail)] = ","
       THEN SubSeq(tail, 1, Len(tail) - 1)
       ELSE value

\* where `$` lets a match end: at the end of the text, or before a line
\* break that is its last character
match_ends(value) ==
    {Len(value)} \cup (IF value # <<>> /\ value[Len(value)] = "\n"
                       THEN {Len(value) - 1} ELSE {})

\* re.sub(r'^<open>(.*)<close>$', r'\1', value) without DOTALL: the text
\* between a first character in `open` and a last one in `close`, no line
\* break in between, replaces the two and what they enclose
unwrap(value, open, close) ==
    LET ends == {e \in match_ends(value) :
                    /\ e >= 2
                    /\ value[1] \in open
                    /\ value[e] \in close
                    /\ \A k \in 2..(e - 1) : value[k] # "\n"}
    IN IF ends = {} THEN value
       ELSE LET e == CHOOSE x \in ends : \A y \in ends : y <= x
            IN SubSeq(value, 2, e - 1) \o SubSeq(value, e + 1, Len(value))

\* the clean-up with the two substitutions of lines 149 and 150 made one or
\* the other: the braces are looked at only when no quotes were removed
clean_value_once(raw) ==
    LET value == remove_trailing_comma(strip(raw))
        unquoted == unwrap(value, Quotes, Quotes)
    IN IF unquoted # value THEN unquoted ELSE unwrap(value, {"{"}, {"}"})

\* _parse_fields lines 143-150
clean_value(raw) ==
    LET value == remove_trailing_comma(strip(raw))
        unquoted == unwrap(value, Quotes, Quotes)
    IN unwrap(unquoted, {"{"}, {"}"})

\* ------------------------------------------------------------------------
\* BibtexParser.parse_content and _parse_fields on text: the two patterns
\* matched as re.finditer matches them (leftmost match, greedy and lazy
\* repetition with backtracking, DOTALL)
\* ------------------------------------------------------------------------
\* \w
WordChars ==
    {UPPER[k] : k \in 1..Len(UPPER)} \cup {LOWER[k] : k \in 1..Len(LOWER)}
    \cup {"0", "1", "2", "3", "4", "5", "6", "7", "8", "9", "_"}

\* the character at a position, "" past the end
At(text, p) == IF p \in 1..Len(text) THEN text[p] ELSE ""

\* the position after the longest run of characters of `class` from p on
SkipIn(text, p, class) ==
    IF p > Len(text) THEN p
    ELSE CHOOSE q \in p..(Len(text) + 1) :
             /\ \A k \in p..(q - 1) : text[k] \in class
             /\ At(text, q) \notin class

\* the same for [^,\s]
SkipKey(text, p) ==
    IF p > Len(text) THEN p
    ELSE CHOOSE q \in p..(Len(text) + 1) :
             /\ \A k \in p..(q - 1) : text[k] \notin (Whitespace \cup {","})
             /\ At(text, q) \in (Whitespace \cup {",", ""})

\* \n\s*\} matches at e
closes_at(text, e) ==
    At(text, e) = "\n" /\ At(text, SkipIn(text, e + 1, Whitespace)) = "}"

\* entry_pattern tried at position `at`: @(\w+)\s*\{\s*([^,\s]+)\s*,\s*(.*?)\n\s*\}
entry_match(text, at) ==
    LET type_end == SkipIn(text, at + 1, WordChars)
        open == SkipIn(text, type_end, Whitespace)
        key_start == SkipIn(text, open + 1, Whitespace)
        key_end == SkipKey(text, key_start)
        comma == SkipIn(text, key_end, Whitespace)
        space_end == SkipIn(text, comma + 1, Whitespace)
        \* the lazy group first tried after all the whitespace, then after less
        ahead == {e \in space_end..Len(text) : closes_at(text, e)}
        back == {e \in (comma + 1)..(space_end - 1) : closes_at(text, e)}
        close == IF ahead # {} THEN CHOOSE e \in ahead : \A x \in ahead : e <= x
                 ELSE CHOOSE e \in back : \A x \in back : x <= e
        fields_start == IF ahead # {} THEN space_end ELSE close
    IN IF /\ At(text, at) = "@"
          /\ type_end > at + 1
          /\ At(text, open) = "{"
          /\ key_end > key_start
          /\ At(text, comma) = ","
          /\ (ahead \cup back) # {}
       THEN [ok |-> TRUE,
             entry_type |-> SubSeq(text, at + 1, type_end - 1),
             cite_key |-> SubSeq(text, key_start, key_end - 1),
             fields_str |-> SubSeq(text, fields_start, close - 1),
             last |-> SkipIn(text, close + 1, Whitespace)]
       ELSE [ok |-> FALSE]

\* the lookahead (?=,\s*\w+\s*=|$) holds at e
value_ends_at(text, e) ==
    \/ e = Len(text) + 1
    \/ e = Len(text) /\ text[e] = "\n"
    \/ /\ At(text, e) = ","
       /\ LET name == SkipIn(text, e + 1, Whitespace)
              name_end == SkipIn(text, name, WordChars)
          IN /\ name_end > name
             /\ At(text, SkipIn(text, name_end, Whitespace)) = "="

\* field_pattern tried at position `at`: (\w+)\s*=\s*(.+?)(?=,\s*\w+\s*=|$)
field_match(text, at) ==
    LET key_end == SkipIn(text, at, WordChars)
        equals == SkipIn(text, key_end, Whitespace)
        space_end == SkipIn(text, equals + 1, Whitespace)
        \* the value starts after all the whitespace, or, when nothing is
        \* left there, on its last character
        value_start == IF space_end <= Len(text) THEN space_end ELSE Len(text)
        value_end == CHOOSE e \in (value_start + 1)..(Len(text) + 1) :
                         /\ value_ends_at(text, e)
                         /\ \A x \in (value_start + 1)..(e - 1) : ~value_ends_at(text, x)
    IN IF /\ key_end > at
          /\ At(text, equals) = "="
          /\ equals < Len(text)
       THEN [ok |-> TRUE,
             key |-> SubSeq(text, at, key_end - 1),
             value |-> SubSeq(text, value_start, value_end - 1),
             last |-> value_end - 1]
       ELSE [ok |-> FALSE]

\* re.finditer(field_pattern, fields_str): the matches from position `at` on
RECURSIVE field_matches(_, _)
field_matches(text, at) ==
    IF at > Len(text) THEN <<>>
    ELSE LET m == field_match(text, at)
         IN IF m.ok THEN <<m>> \o field_matches(text, m.last + 1)
            ELSE field_matches(text, at + 1)

\* the field name a key text stands for; the names the model gives no
\* meaning to are one name
field_name(key) ==
    IF \E n \in DOMAIN FieldNameText : FieldNameText[n] = key
    THEN CHOOSE n \in DOMAIN FieldNameText : FieldNameText[n] = key
    ELSE "other"

\* BibtexParser._parse_fields: a later value of a name replaces an earlier one
parse_fields(fields_str) ==
    LET found == field_matches(fields_str, 1)
        names == {field_name(found[k].key) : k \in 1..Len(found)}
        latest(n) == CHOOSE k \in 1..Len(found) :
                         /\ field_name(found[k].key) = n
                         /\ \A x \in (k + 1)..Len(found) : field_name(found[x].key) # n
    IN [n \in names |-> clean_value(found[latest(n)].value)]

\* BibtexParser.parse_content: the entries matched from position `at` on
RECURSIVE parse_entries(_, _)
parse_entries(text, at) ==
    IF at > Len(text) THEN <<>>
    ELSE LET m == entry_match(text, at)
         IN IF m.ok
            THEN <<BibtexEntry(m.entry_type, m.cite_key, parse_fields(m.fields_str))>>
                 \o parse_entries(text, m.last + 1)
            ELSE parse_entries(text, at + 1)

\* ------------------------------------------------------------------------
\* BibtexParser.parse_content on a retrieved body.  A body is a sequence of
\* stretches of text: blank space, text that matches no entry pattern, or
\* the text of one entry (raw type, key and cleaned fields).
\* ------------------------------------------------------------------------
IsEntryChunk(chunk) == chunk.kind = "entry"
IsBlankChunk(chunk) == chunk.kind = "blank"

RECURSIVE parse_content(_)
parse_content(content) ==
    IF content = <<>> THEN <<>>
    ELSE LET chunk == Head(content) IN
         IF IsEntryChunk(chunk)
         THEN <<BibtexEntry(chunk.entry_type, chunk.cite_key, chunk.fields)>>
              \o parse_content(Tail(content))
         ELSE parse_content(Tail(content))

\* `not bib_content.strip()`
body_is_blank(content) == \A k \in 1..Len(content) : IsBlankChunk(content[k])

\* ------------------------------------------------------------------------
\* DBLPSearcher: the candidates and the responses of the external index
\* ------------------------------------------------------------------------
ARXIV == <<"a","r","x","i","v">>
CORR == <<"c","o","r","r">>

\* 'arxiv' in text.lower() or 'corr' in text.lower()
names_preprint(text) ==
    Contains(lower(text), ARXIV) \/ Contains(lower(text), CORR)

\* _is_arxiv_hit with the venue text compared as written, not lower-cased
is_arxiv_hit_cased(hit) ==
    hit.venue.type \in {"str", "dict"}
    /\ (Contains(hit.venue.text, ARXIV) \/ Contains(hit.venue.text, CORR))

\* DBLPSearcher._is_arxiv_hit
is_arxiv_hit(hit) ==
    IF hit.venue.type = "str" THEN names_preprint(hit.venue.text)
    ELSE IF hit.venue.type = "dict" THEN names_preprint(hit.venue.text)
    ELSE FALSE

NotArxivHit(hit) == ~is_arxiv_hit(hit)

\* DBLPSearcher._filter_arxiv_hits
filter_arxiv_hits(hits) == SelectSeq(hits, NotArxivHit)

\* every hit_list taken for empty
is_falsy_always(hit_list) == TRUE

\* `not hit_list`: an empty list, an empty object or a falsy scalar
is_falsy(hit_list) == hit_list.items = <<>>

\* the choice with the first candidate that passes the filter taken even
\* when several pass
select_result_first(hit_list) ==
    IF hit_list.shape = "list"
    THEN LET filtered_hits == filter_arxiv_hits(hit_list.items)
         IN IF Len(filtered_hits) = 0 THEN None ELSE filtered_hits[1]
    ELSE IF hit_list.shape = "dict"
         THEN IF is_arxiv_hit(hit_list.items[1]) THEN None ELSE hit_list.items[1]
         ELSE None

\* search_by_title lines 213-233: the candidate chosen from a non-empty hit_list
select_result(hit_list) ==
    IF hit_list.shape = "list"
    THEN LET filtered_hits == filter_arxiv_hits(hit_list.items)
         IN IF Len(filtered_hits) = 0 THEN None
            ELSE IF Len(filtered_hits) = 1 THEN filtered_hits[1]
            ELSE None
    ELSE IF hit_list.shape = "dict"
         THEN IF is_arxiv_hit(hit_list.items[1]) THEN None ELSE hit_list.items[1]
         ELSE None

\* lines 241 and 346: attempt_num < self.max_retries, with attempt_num = attempt + 1
retry_allowed(attempt) == attempt + 1 < max_retries

\* the canonical record returned with the key it was retrieved under
replace_cite_key_not(entry, original_cite_key) == entry

\* download_bibtex_from_dblp lines 338-339: the key of the canonical record is replaced
replace_cite_key(entry, original_cite_key) ==
    [entry EXCEPT !.cite_key = original_cite_key]

\* download_bibtex_from_dblp lines 323-342: what a received body yields
record_from_body(bib_content, original_cite_key) ==
    IF body_is_blank(bib_content) THEN None
    ELSE LET parsed == parse_content(bib_content)
         IN IF parsed = <<>> THEN None
            ELSE replace_cite_key(parsed[1], original_cite_key)

\* ------------------------------------------------------------------------
\* Inputs: the parsed input records, the candidates and the responses
\* ------------------------------------------------------------------------
Key1 == <<"k","1">>
Key2 == <<"k","2">>

Untitled == [year |-> <<"2","0">>]
BlankTitled == [title |-> <<"{"," ","}">>, year |-> <<"2","0">>]
Titled == [title |-> <<" ","{","A","}"," "," ","b">>, note |-> <<"n">>]

InputRecords ==
    { BibtexEntry(<<"M","i","s","c">>, Key1, Titled),
      BibtexEntry(<<"M","i","s","c">>, Key1, BlankTitled),
      BibtexEntry(<<"M","i","s","c">>, Key2, Untitled) }

Hits ==
    { [venue |-> [type |-> "str", text |-> <<"C","o","R","R">>], url |-> <<"u","1">>],
      [venue |-> [type |-> "dict", text |-> <<"a","r","X","i","v">>], url |-> <<"u","2">>],
      [venue |-> [type |-> "str", text |-> <<"I","C","M","L">>], url |-> <<"u","3">>],
      [venue |-> [type |-> "list", text |-> <<"C","o","R","R">>], url |-> <<>>] }

SeqsUpTo(S, n) == UNION { [1..m -> S] : m \in 0..n }

HitLists ==
    { [shape |-> "list", items |-> hs] : hs \in SeqsUpTo(Hits, MaxHits) }
    \cup { [shape |-> "dict", items |-> <<h>>] : h \in Hits }
    \cup { [shape |-> "dict", items |-> <<>>],
           [shape |-> "other", items |-> <<>>],
           [shape |-> "other", items |-> <<[tag |-> "scalar"]>>] }

\* a search response: a transport or JSON failure, a JSON body that is not
\* object-shaped where the code calls .get, or a body carrying a hit_list
SearchResponses ==
    { [kind |-> "error"], [kind |-> "malformed"] }
    \cup { [kind |-> "ok", hit_list |-> hl] : hl \in HitLists }

Canonical1 ==
    [kind |-> "entry", entry_type |-> <<"A","r","t","i","c","l","e">>,
     cite_key |-> <<"D","B","L","P",":","x">>,
     fields |-> [title |-> <<"A"," ","b">>, year |-> <<"2","1">>,
                 biburl |-> <<"u">>]]

Canonical2 ==
    [kind |-> "entry", entry_type |-> <<"M","i","s","c">>,
     cite_key |-> <<"k","2">>,
     fields |-> [title |-> <<" ","{","A","}"," "," ","b">>, note |-> <<"n">>]]

Blank == [kind |-> "blank"]
Junk == [kind |-> "junk"]

Bodies ==
    { <<>>, <<Blank>>, <<Junk>>, <<Blank, Canonical1>>, <<Junk, Canonical2, Canonical1>> }

\* a download response: requests.RequestException, any other exception,
\* or a body
DownloadResponses ==
    { [kind |-> "error"], [kind |-> "exception"] }
    \cup { [kind |-> "ok", body |-> b] : b \in Bodies }

\* ------------------------------------------------------------------------
\* State
\* ------------------------------------------------------------------------
VARIABLES
    entries,          \* main: the parsed input records
    i,                \* main: index of the entry of the current iteration
    updated_entries,  \* main: the output records
    failed_entries,   \* main: the keys reported as failed
    outcomes,         \* the disposition printed for each processed entry
    pc,               \* position of the single flow of control
    title,            \* main: the extracted title of entry i
    hit,              \* main: what search_by_title returned for entry i
    updated_entry,    \* main: what download_bibtex_from_dblp returned for entry i
    attempt,          \* search_by_title: the loop variable
    hit_list,         \* search_by_title: the result set last extracted for entry i
    result,           \* search_by_title: the value it returns
    slog,             \* events of the search call of entry i, in order
    dl_attempt,       \* download_bibtex_from_dblp: the loop variable
    dlog,             \* events of the download call of entry i, in order
    search_calls,     \* calls of search_by_title made for entry i
    dl_calls,         \* calls of download_bibtex_from_dblp made for entry i
    outfile,          \* the text written to the output file, one item per record
    report,           \* the summary printed at the end of a run
    response,         \* download_bibtex_from_dblp: the response received
    last_req,         \* index of the entry the latest network request was made for
    probe_in,         \* the argument of a function applied on its own
    probe_out         \* the value that function returned

vars == <<entries, i, updated_entries, failed_entries, outcomes, pc, title, hit,
          updated_entry, attempt, hit_list, result, slog, dl_attempt, dlog,
          search_calls, dl_calls, outfile, report, response, last_req,
          probe_in, probe_out>>

main_lists == <<updated_entries, failed_entries, outcomes>>
search_frame == <<attempt, hit_list, result, slog>>
download_frame == <<dl_attempt, dlog, response>>
written == <<outfile, report>>
probe == <<probe_in, probe_out>>

\* a local that has no value yet in the current iteration
Unset == [tag |-> "unset"]

Init ==
    /\ entries \in SeqsUpTo(InputRecords, MaxEntries)
    /\ i = 0
    /\ updated_entries = <<>>
    /\ failed_entries = <<>>
    /\ outcomes = <<>>
    /\ pc = "start"
    /\ title = <<>>
    /\ hit = Unset
    /\ updated_entry = Unset
    /\ attempt = 0
    /\ hit_list = Unset
    /\ result = Unset
    /\ slog = <<>>
    /\ dl_attempt = 0
    /\ dlog = <<>>
    /\ search_calls = 0
    /\ dl_calls = 0
    /\ outfile = <<>>
    /\ report = Unset
    /\ response = Unset
    /\ last_req = 0
    /\ probe_in = Unset
    /\ probe_out = Unset

\* ------------------------------------------------------------------------
\* main
\* ------------------------------------------------------------------------
\* main lines 376-385: no entries ends the run before the loop
ReadInput ==
    /\ pc = "start"
    /\ pc' = IF entries = <<>> THEN "noinput" ELSE "loop"
    /\ UNCHANGED <<entries, probe, last_req, i, main_lists, title, hit, updated_entry, search_frame,
                   download_frame, search_calls, dl_calls, written>>

\* the original record kept without its key being reported as failed
KeepOriginal_unreported(entry, reason) ==
    /\ updated_entries' = Append(updated_entries, entry)
    /\ outcomes' = Append(outcomes, reason)
    /\ UNCHANGED failed_entries

\* the original record kept with the fields the output never shows dropped
KeepOriginal_trimmed(entry, reason) ==
    /\ failed_entries' = Append(failed_entries, entry.cite_key)
    /\ updated_entries' =
           Append(updated_entries,
                  [entry EXCEPT !.fields =
                      [k \in DOMAIN entry.fields \ {"note"} |-> entry.fields[k]]])
    /\ outcomes' = Append(outcomes, reason)

\* main lines 393-394, 404-405, 413-414: the original record is kept
KeepOriginal(entry, reason) ==
    /\ failed_entries' = Append(failed_entries, entry.cite_key)
    /\ updated_entries' = Append(updated_entries, entry)
    /\ outcomes' = Append(outcomes, reason)

\* main lines 387-400: the next iteration starts, and either ends at once
\* for want of a title or calls the search
NextEntry ==
    /\ pc = "loop"
    /\ i < Len(entries)
    /\ i' = i + 1
    /\ title' = get_title(entries[i + 1])
    /\ hit' = Unset
    /\ updated_entry' = Unset
    /\ hit_list' = Unset
    /\ slog' = <<>>
    /\ dlog' = <<>>
    /\ attempt' = 0
    /\ dl_attempt' = 0
    /\ response' = Unset
    /\ dl_calls' = 0
    /\ result' = Unset
    /\ IF title' = <<>>
       THEN /\ KeepOriginal(entries[i + 1], "no_title")
            /\ search_calls' = 0
            /\ pc' = "loop"
       ELSE /\ UNCHANGED main_lists
            /\ search_calls' = 1
            /\ pc' = "search_call"
    /\ UNCHANGED <<entries, probe, last_req, written>>

\* ------------------------------------------------------------------------
\* DBLPSearcher.search_by_title
\* ------------------------------------------------------------------------
\* the search entered with the request made whatever the title
SearchEnter_unguarded ==
    /\ pc = "search_call"
    /\ pc' = "search_phrase"
    /\ UNCHANGED <<entries, probe, last_req, i, main_lists, title, hit, updated_entry, search_frame,
                   download_frame, search_calls, dl_calls, written>>

\* lines 171-176: a title that is empty once stripped returns None at once,
\* any other title enters the loop of attempts
SearchEnter ==
    /\ pc = "search_call"
    /\ IF strip(title) = <<>>
       THEN result' = None /\ pc' = "search_ret"
       ELSE result' = result /\ pc' = "search_phrase"
    /\ UNCHANGED <<entries, probe, last_req, i, main_lists, title, hit, updated_entry, attempt,
                   hit_list, slog, download_frame, search_calls, dl_calls, written>>

\* lines 239-247: a caught failure of the request `query` of this attempt
SearchFailed(query) ==
    /\ slog' = slog \o <<query, "fail">>
    /\ IF retry_allowed(attempt)
       THEN /\ pc' = "search_retry"
            /\ UNCHANGED result
       ELSE /\ pc' = "search_ret"
            /\ result' = None
    /\ UNCHANGED <<attempt, hit_list>>

\* lines 213-233: a non-empty hit_list is filtered and a result chosen
SearchDecided(query, hl) ==
    /\ slog' = Append(slog, query)
    /\ hit_list' = hl
    /\ result' = select_result(hl)
    /\ pc' = "search_ratelimit"
    /\ UNCHANGED attempt

\* lines 178-197: the exact-phrase request of an attempt
SearchPhrase ==
    /\ pc = "search_phrase"
    /\ \E resp \in SearchResponses :
         IF resp.kind = "error" THEN SearchFailed("phrase")
         ELSE IF resp.kind = "malformed"
         THEN /\ pc' = "crashed"
              /\ slog' = Append(slog, "phrase")
              /\ UNCHANGED <<attempt, hit_list, result>>
         ELSE IF is_falsy(resp.hit_list)
         THEN /\ pc' = "search_plain"
              /\ slog' = Append(slog, "phrase")
              /\ hit_list' = resp.hit_list
              /\ UNCHANGED <<attempt, result>>
         ELSE SearchDecided("phrase", resp.hit_list)
    /\ last_req' = i
    /\ UNCHANGED <<entries, probe, i, main_lists, title, hit, updated_entry, download_frame,
                   search_calls, dl_calls, written>>

\* lines 198-210: the plain request made when the phrase request found nothing
SearchPlain ==
    /\ pc = "search_plain"
    /\ \E resp \in SearchResponses :
         IF resp.kind = "error" THEN SearchFailed("plain")
         ELSE IF resp.kind = "malformed"
         THEN /\ pc' = "crashed"
              /\ slog' = Append(slog, "plain")
              /\ UNCHANGED <<attempt, hit_list, result>>
         ELSE IF is_falsy(resp.hit_list)
         THEN /\ pc' = "search_ret"
              /\ slog' = Append(slog, "plain")
              /\ hit_list' = resp.hit_list
              /\ result' = None
              /\ UNCHANGED attempt
         ELSE SearchDecided("plain", resp.hit_list)
    /\ last_req' = i
    /\ UNCHANGED <<entries, probe, i, main_lists, title, hit, updated_entry, download_frame,
                   search_calls, dl_calls, written>>

\* the next turn of the loop entered without the wait of line 244
SearchRetrySleep_nowait ==
    /\ pc = "search_retry"
    /\ attempt' = attempt + 1
    /\ pc' = "search_phrase"
    /\ UNCHANGED <<entries, probe, last_req, i, main_lists, title, hit, updated_entry, hit_list, result,
                   slog, download_frame, search_calls, dl_calls, written>>

\* line 244 and the next turn of the loop of line 176
SearchRetrySleep ==
    /\ pc = "search_retry"
    /\ slog' = Append(slog, "sleep")
    /\ attempt' = attempt + 1
    /\ pc' = "search_phrase"
    /\ UNCHANGED <<entries, probe, last_req, i, main_lists, title, hit, updated_entry, hit_list, result,
                   download_frame, search_calls, dl_calls, written>>

\* lines 235-237: the rate-limit delay, then the return
SearchRateLimit ==
    /\ pc = "search_ratelimit"
    /\ slog' = Append(slog, "sleep")
    /\ pc' = "search_ret"
    /\ UNCHANGED <<entries, probe, last_req, i, main_lists, title, hit, updated_entry, attempt, hit_list,
                   result, download_frame, search_calls, dl_calls, written>>

\* ------------------------------------------------------------------------
\* main after the search, and DBLPSearcher.download_bibtex_from_dblp
\* ------------------------------------------------------------------------
\* main lines 400-409 and download_bibtex_from_dblp lines 307-319: the search
\* returns (its frame is gone) and its result is tested; a candidate is handed
\* to the download, which returns None at once when the candidate has no url
AfterSearch ==
    /\ pc = "search_ret"
    /\ i \in 1..Len(entries)
    /\ hit' = result
    /\ attempt' = 0
    /\ hit_list' = Unset
    /\ result' = Unset
    /\ slog' = <<>>
    /\ IF result = None
       THEN /\ KeepOriginal(entries[i], "no_results")
            /\ pc' = "loop"
            /\ UNCHANGED <<updated_entry, dl_calls>>
       ELSE /\ dl_calls' = dl_calls + 1
            /\ UNCHANGED main_lists
            /\ IF result.url = <<>>
               THEN updated_entry' = None /\ pc' = "download_ret"
               ELSE updated_entry' = Unset /\ pc' = "download"
    /\ UNCHANGED <<entries, probe, last_req, i, title, download_frame, search_calls, written>>

\* one attempt of the download in which a body without a record is taken
\* for a failure of the request
DownloadRequest_retry_empty ==
    /\ pc = "download"
    /\ \E resp \in DownloadResponses :
         IF resp.kind = "error"
            \/ (resp.kind = "ok" /\ parse_content(resp.body) = <<>>)
         THEN /\ dlog' = dlog \o <<"get", "fail">>
              /\ IF retry_allowed(dl_attempt)
                 THEN /\ dl_attempt' = dl_attempt + 1
                      /\ pc' = "download"
                      /\ UNCHANGED updated_entry
                 ELSE /\ updated_entry' = None
                      /\ pc' = "download_ret"
                      /\ UNCHANGED dl_attempt
              /\ response' = IF resp.kind = "ok" THEN resp ELSE response
         ELSE /\ dlog' = Append(dlog, "get")
              /\ updated_entry' = IF resp.kind = "exception" THEN None
                                  ELSE record_from_body(resp.body, entries[i].cite_key)
              /\ response' = IF resp.kind = "exception" THEN response ELSE resp
              /\ pc' = "download_ret"
              /\ UNCHANGED dl_attempt
    /\ last_req' = i
    /\ UNCHANGED <<entries, probe, i, main_lists, title, hit, search_frame, search_calls,
                   dl_calls, written>>

\* download_bibtex_from_dblp lines 319-356: one attempt of the download
DownloadRequest ==
    /\ pc = "download"
    /\ \E resp \in DownloadResponses :
         IF resp.kind = "error"
         THEN /\ dlog' = dlog \o <<"get", "fail">>
              /\ IF retry_allowed(dl_attempt)
                 THEN /\ dl_attempt' = dl_attempt + 1
                      /\ pc' = "download"
                      /\ UNCHANGED updated_entry
                 ELSE /\ updated_entry' = None
                      /\ pc' = "download_ret"
                      /\ UNCHANGED dl_attempt
              /\ UNCHANGED response
         ELSE /\ dlog' = Append(dlog, "get")
              /\ updated_entry' = IF resp.kind = "exception" THEN None
                                  ELSE record_from_body(resp.body, entries[i].cite_key)
              /\ response' = IF resp.kind = "exception" THEN response ELSE resp
              /\ pc' = "download_ret"
              /\ UNCHANGED dl_attempt
    /\ last_req' = i
    /\ UNCHANGED <<entries, probe, i, main_lists, title, hit, search_frame, search_calls,
                   dl_calls, written>>

\* the result of the download appended without the test of line 411
AfterDownload_unchecked ==
    /\ pc = "download_ret"
    /\ dl_attempt' = 0
    /\ dlog' = <<>>
    /\ response' = Unset
    /\ updated_entries' = Append(updated_entries, updated_entry)
    /\ outcomes' = Append(outcomes, "replaced")
    /\ pc' = "loop"
    /\ UNCHANGED <<entries, probe, last_req, i, failed_entries, title, hit, updated_entry, search_frame,
                   search_calls, dl_calls, written>>

\* main lines 411-417: the download returns (its frame is gone); the
\* downloaded record replaces the original, or the original is kept
AfterDownload ==
    /\ pc = "download_ret"
    /\ dl_attempt' = 0
    /\ dlog' = <<>>
    /\ response' = Unset
    /\ IF updated_entry = None
       THEN KeepOriginal(entries[i], "download_failed")
       ELSE /\ updated_entries' = Append(updated_entries, updated_entry)
            /\ outcomes' = Append(outcomes, "replaced")
            /\ UNCHANGED failed_entries
    /\ pc' = "loop"
    /\ UNCHANGED <<entries, probe, last_req, i, title, hit, updated_entry, search_frame, search_calls,
                   dl_calls, written>>

\* the loop started over when a record was kept, for a second try
FinishLoop_second_pass ==
    /\ pc = "loop"
    /\ i = Len(entries)
    /\ IF failed_entries # <<>>
       THEN i' = 0 /\ pc' = "loop"
       ELSE i' = i /\ pc' = "write"
    /\ UNCHANGED <<entries, probe, last_req, main_lists, title, hit, updated_entry, search_frame,
                   download_frame, search_calls, dl_calls, written>>

\* main line 387: the loop is over
FinishLoop ==
    /\ pc = "loop"
    /\ i = Len(entries)
    /\ pc' = "write"
    /\ UNCHANGED <<entries, probe, last_req, i, main_lists, title, hit, updated_entry, search_frame,
                   download_frame, search_calls, dl_calls, written>>

\* main lines 435-439: the summary
summary ==
    [total |-> Len(entries),
     successful |-> Len(updated_entries) - Len(failed_entries),
     failed |-> Len(failed_entries)]

\* main lines 419-444: the output file is written and the summary printed,
\* or the write fails and the run ends without a summary
WriteOutput ==
    /\ pc = "write"
    /\ \E writable \in BOOLEAN :
         IF writable
         THEN /\ outfile' = [k \in 1..Len(updated_entries) |->
                                to_bibtex(updated_entries[k]) \o <<"\n", "\n">>]
              /\ report' = summary
              /\ pc' = "done"
         ELSE /\ pc' = "write_failed"
              /\ UNCHANGED written
    /\ UNCHANGED <<entries, probe, last_req, i, main_lists, title, hit, updated_entry, search_frame,
                   download_frame, search_calls, dl_calls>>

Next ==
    \/ ReadInput
    \/ NextEntry
    \/ SearchEnter
    \/ SearchPhrase
    \/ SearchPlain
    \/ SearchRetrySleep
    \/ SearchRateLimit
    \/ AfterSearch
    \/ DownloadRequest
    \/ AfterDownload
    \/ FinishLoop
    \/ WriteOutput

Spec == Init /\ [][Next]_vars

\* ------------------------------------------------------------------------
\* DBLPSearcher.search_by_title called on its own, outside a run of main:
\* the method is public and takes any title
\* ------------------------------------------------------------------------
SearchTitles ==
    { <<>>, <<" ">>, <<" ", "\n">>, <<"\t", " ", " ">>, <<"A">>, <<" ", "A", " ">> }

InitSearch ==
    /\ entries = <<>>
    /\ i = 0
    /\ updated_entries = <<>>
    /\ failed_entries = <<>>
    /\ outcomes = <<>>
    /\ pc = "search_call"
    /\ title \in SearchTitles
    /\ hit = Unset
    /\ updated_entry = Unset
    /\ attempt = 0
    /\ hit_list = Unset
    /\ result = Unset
    /\ slog = <<>>
    /\ dl_attempt = 0
    /\ dlog = <<>>
    /\ search_calls = 1
    /\ dl_calls = 0
    /\ outfile = <<>>
    /\ report = Unset
    /\ response = Unset
    /\ last_req = 0
    /\ probe_in = Unset
    /\ probe_out = Unset

\* search_by_title returns to a caller that is not main
SearchReturn ==
    /\ pc = "search_ret"
    /\ i = 0
    /\ hit' = result
    /\ pc' = "returned"
    /\ UNCHANGED <<entries, probe, last_req, i, main_lists, title, updated_entry, search_frame,
                   download_frame, search_calls, dl_calls, written>>

\* a run of main, or one call of search_by_title on its own
InitCalls == Init \/ InitSearch

NextCalls == Next \/ SearchReturn

SpecCalls == InitCalls /\ [][NextCalls]_vars

\* ------------------------------------------------------------------------
\* BibtexEntry and BibtexParser applied on their own to one argument
\* ------------------------------------------------------------------------
pipeline == <<entries, i, main_lists, title, hit, updated_entry, search_frame,
              download_frame, search_calls, dl_calls, written, last_req>>

\* no run of main and no call of the client is going on
Idle ==
    /\ entries = <<>>
    /\ i = 0
    /\ updated_entries = <<>>
    /\ failed_entries = <<>>
    /\ outcomes = <<>>
    /\ title = <<>>
    /\ hit = Unset
    /\ updated_entry = Unset
    /\ attempt = 0
    /\ hit_list = Unset
    /\ result = Unset
    /\ slog = <<>>
    /\ dl_attempt = 0
    /\ dlog = <<>>
    /\ search_calls = 0
    /\ dl_calls = 0
    /\ outfile = <<>>
    /\ report = Unset
    /\ response = Unset
    /\ last_req = 0

ProbeKey == <<"k">>

\* _balance_braces and the booktitle of to_bibtex, on any short text of
\* braces, commas, spaces and letters
BraceAlphabet == {"{", "}", ",", " ", "a"}

BraceTexts == SeqsUpTo(BraceAlphabet, MaxBraceText)

InitBraces ==
    /\ Idle
    /\ pc = "probe"
    /\ probe_in \in { [text |-> t] : t \in BraceTexts }
    /\ probe_out = Unset

BalanceBraces ==
    /\ pc = "probe"
    /\ probe_out' = [text |-> balance_braces(probe_in.text)]
    /\ pc' = "balanced"
    /\ UNCHANGED <<probe_in, pipeline>>

SerializeBooktitle ==
    /\ pc = "probe"
    /\ probe_out' =
           [text |-> to_bibtex(BibtexEntry(<<"M","i","s","c">>, ProbeKey,
                                           [booktitle |-> probe_in.text]))]
    /\ pc' = "booktitle"
    /\ UNCHANGED <<probe_in, pipeline>>

NextBraces == BalanceBraces \/ SerializeBooktitle

SpecBraces == InitBraces /\ [][NextBraces]_vars

\* to_bibtex on records of a few fields, essential or not, empty or not
FieldNames ==
    {"author", "title", "booktitle", "journal", "year", "pages", "volume",
     "number", "note"}

FieldValues == { <<>>, <<"x">>, <<"a", " ", "b">> }

FieldMaps ==
    UNION { [D -> FieldValues] :
              D \in {S \in SUBSET FieldNames : Cardinality(S) <= MaxFields} }

InitSerialize ==
    /\ Idle
    /\ pc = "probe"
    /\ probe_in \in { BibtexEntry(<<"M","i","s","c">>, ProbeKey, f) : f \in FieldMaps }
    /\ probe_out = Unset

Serialize ==
    /\ pc = "probe"
    /\ probe_out' = [text |-> to_bibtex(probe_in)]
    /\ pc' = "serialized"
    /\ UNCHANGED <<probe_in, pipeline>>

NextSerialize == Serialize

SpecSerialize == InitSerialize /\ [][NextSerialize]_vars

\* to_bibtex, parse_content on the text it wrote, and to_bibtex again, on
\* records with essential fields only
RoundTripNames == {"title", "booktitle", "year", "pages"}

RoundTripValues ==
    { <<>>, <<"x">>, <<"a", " ", "b">>, <<"{", "2", "}">>, <<"a", "\n", "b">>,
      <<"A", ",", "b">> }

RoundTripMaps ==
    UNION { [D -> RoundTripValues] :
              D \in {S \in SUBSET RoundTripNames : Cardinality(S) <= MaxFields} }

InitRoundTrip ==
    /\ Idle
    /\ pc = "probe"
    /\ probe_in \in { BibtexEntry(<<"M","i","s","c">>, ProbeKey, f) : f \in RoundTripMaps }
    /\ probe_out = Unset

Reparse ==
    /\ pc = "serialized"
    /\ probe_out' = [text |-> probe_out.text,
                     parsed |-> parse_entries(probe_out.text, 1)]
    /\ pc' = "reparsed"
    /\ UNCHANGED <<probe_in, pipeline>>

Reserialize ==
    /\ pc = "reparsed"
    /\ probe_out.parsed # <<>>
    /\ probe_out' = [text |-> probe_out.text,
                     parsed |-> probe_out.parsed,
                     again |-> to_bibtex(probe_out.parsed[1])]
    /\ pc' = "reserialized"
    /\ UNCHANGED <<probe_in, pipeline>>

NextRoundTrip == Serialize \/ Reparse \/ Reserialize

SpecRoundTrip == InitRoundTrip /\ [][NextRoundTrip]_vars

\* the clean-up of _parse_fields on any short raw value
RawAlphabet == {"\"", "'", "{", "}", ",", " ", "X"}

RawValues == SeqsUpTo(RawAlphabet, MaxRawValue)

InitClean ==
    /\ Idle
    /\ pc = "probe"
    /\ probe_in \in { [text |-> t] : t \in RawValues }
    /\ probe_out = Unset

CleanValue ==
    /\ pc = "probe"
    /\ probe_out' = [text |-> clean_value(probe_in.text)]
    /\ pc' = "cleaned"
    /\ UNCHANGED <<probe_in, pipeline>>

NextClean == CleanValue

SpecClean == InitClean /\ [][NextClean]_vars

\* ------------------------------------------------------------------------
\* Vocabulary of the properties
\* ------------------------------------------------------------------------
IsValue(x) == x # None /\ x # Unset

Count(log, event) == Cardinality({p \in DOMAIN log : log[p] = event})

\* the run has stopped, normally or not
Stopped == pc \in {"done", "write_failed", "crashed", "noinput"}

\* the resolution loop is over
LoopOver == pc \in {"write", "done", "write_failed"}

\* the search frame holds a result set and the result chosen from it
Decided == pc \in {"search_ratelimit", "search_ret"} /\ hit_list # Unset

\* the candidates of a result set
Candidates(hl) == IF hl.shape \in {"list", "dict"} THEN hl.items ELSE <<>>

\* the number of candidates of a result set that pass the preprint filter
Survivors(hl) == Len(filter_arxiv_hits(Candidates(hl)))

UpperChar(c) ==
    IF \E k \in 1..Len(LOWER) : LOWER[k] = c
    THEN UPPER[CHOOSE k \in 1..Len(LOWER) : LOWER[k] = c]
    ELSE c

\* text contains word (given in lower case) written in any letter case
HasAnyCase(text, word) ==
    \E k \in 0..(Len(text) - Len(word)) :
        \A j \in 1..Len(word) : text[k + j] \in {word[j], UpperChar(word[j])}

\* the venue of a candidate is a string or an object whose text names a preprint
MentionsPreprint(h) ==
    /\ h.venue.type \in {"str", "dict"}
    /\ HasAnyCase(h.venue.text, ARXIV) \/ HasAnyCase(h.venue.text, CORR)

\* the keys of the entries 1..n that were kept, in input order
RECURSIVE KeptKeys(_)
KeptKeys(n) ==
    IF n = 0 THEN <<>>
    ELSE IF outcomes[n] # "replaced"
         THEN Append(KeptKeys(n - 1), entries[n].cite_key)
         ELSE KeptKeys(n - 1)

\* the iteration of entry i has just ended
IterationDone == pc = "loop" /\ i >= 1

\* ------------------------------------------------------------------------
\* Properties
\* ------------------------------------------------------------------------
\* C1: whatever the index answers, once the run is over the loop has produced
\* exactly one output record per input record, each the original or the
\* canonical replacement of the input record at the same position.
C1_OneOutputPerInput ==
    (LoopOver \/ Stopped) =>
        /\ Len(updated_entries) = Len(entries)
        /\ \A j \in 1..Len(entries) :
             \/ updated_entries[j] = entries[j]
             \/ outcomes[j] = "replaced"

C2_SearchAbstains ==
    Decided =>
        /\ Survivors(hit_list) >= 2 => result = None
        /\ IsValue(result) =>
             /\ Survivors(hit_list) = 1
             /\ result = filter_arxiv_hits(Candidates(hit_list))[1]

C2_KeepsOnAmbiguity ==
    (pc = "search_ret" /\ hit_list # Unset /\ Survivors(hit_list) >= 2) =>
        /\ updated_entries' = Append(updated_entries, entries[i])
        /\ outcomes' = Append(outcomes, "no_results")

\* C2: a result set with two or more candidates that pass the preprint filter
\* makes search return None and the pipeline keep the original; search
\* returns a candidate only when exactly one candidate passes the filter.
C2_AbstainOnAmbiguity == []C2_SearchAbstains /\ [][C2_KeepsOnAmbiguity]_vars

C2_Witness ==
    /\ pc = "search_ret"
    /\ hit_list # Unset
    /\ hit_list.shape = "list"
    /\ Survivors(hit_list) = 2
    /\ hit_list.items[1] # hit_list.items[2]
    /\ result = None

OnlyPreprints(hl) ==
    /\ Candidates(hl) # <<>>
    /\ \A k \in 1..Len(Candidates(hl)) : MentionsPreprint(Candidates(hl)[k])

C3_NoPreprintResult ==
    /\ IsValue(result) => ~MentionsPreprint(result)
    /\ IsValue(hit) => ~MentionsPreprint(hit)
    /\ (Decided /\ OnlyPreprints(hit_list)) => result = None

C3_KeepsOnPreprints ==
    (pc = "search_ret" /\ hit_list # Unset /\ OnlyPreprints(hit_list)) =>
        /\ updated_entries' = Append(updated_entries, entries[i])
        /\ outcomes' = Append(outcomes, "no_results")

\* C3: search never returns a candidate whose venue text (a string, or the
\* text of a venue object) contains arxiv or corr in any letter case, and a
\* result set made only of such candidates yields None and a kept entry.
C3_PreprintExclusion == []C3_NoPreprintResult /\ [][C3_KeepsOnPreprints]_vars

C3_Witness ==
    /\ pc = "search_ret"
    /\ hit_list # Unset
    /\ Len(Candidates(hit_list)) = 2
    /\ OnlyPreprints(hit_list)
    /\ \E k \in 1..2 : Candidates(hit_list)[k].venue.type = "dict"
    /\ \E k \in 1..2 :
          /\ Candidates(hit_list)[k].venue.type = "str"
          /\ ~Contains(Candidates(hit_list)[k].venue.text, CORR)
    /\ result = None

\* C4: every output record carries the key of the input record at its
\* position, and a record returned by the download carries the key passed in,
\* whatever key the retrieved text carried.
C4_KeyPreserved ==
    /\ \A j \in 1..Len(updated_entries) :
         updated_entries[j].cite_key = entries[j].cite_key
    /\ IsValue(updated_entry) => updated_entry.cite_key = entries[i].cite_key

C4_Witness ==
    \E j \in 1..Len(updated_entries) :
        /\ outcomes[j] = "replaced"
        /\ updated_entries[j].fields = Canonical1.fields
        /\ Canonical1.cite_key # entries[j].cite_key

\* C5: an entry is replaced exactly when its extracted title is not empty,
\* search returned a candidate and the download returned a record, and is kept
\* as it was otherwise; per entry search is called at most once, and the
\* download at most once and only after search returned a candidate.
C5_ReplacedIffResolved ==
    /\ search_calls <= 1
    /\ dl_calls <= 1
    /\ dl_calls = 1 => (search_calls = 1 /\ IsValue(hit))
    /\ search_calls = 1 => get_title(entries[i]) # <<>>
    /\ IterationDone =>
         /\ outcomes[i] = "replaced" <=>
              /\ get_title(entries[i]) # <<>>
              /\ search_calls = 1 /\ IsValue(hit)
              /\ dl_calls = 1 /\ IsValue(updated_entry)
         /\ outcomes[i] = "replaced" => updated_entries[i] = updated_entry
         /\ outcomes[i] # "replaced" => updated_entries[i] = entries[i]

C5_Witness ==
    /\ IterationDone
    /\ i = 2
    /\ outcomes[1] = "download_failed"
    /\ outcomes[2] = "replaced"
    /\ updated_entries[2] # entries[2]

\* C6: when the loop is over the failure list holds exactly the keys of the
\* records that were kept, once per kept record and in input order.
C6_FailedAreKept ==
    /\ failed_entries = KeptKeys(Len(outcomes))
    /\ \A j \in 1..Len(outcomes) :
         outcomes[j] # "replaced" => updated_entries[j] = entries[j]
    /\ LoopOver => Len(outcomes) = Len(entries)

C6_Witness ==
    /\ LoopOver
    /\ Len(entries) = 2
    /\ entries[1].cite_key = entries[2].cite_key
    /\ outcomes = <<"replaced", "download_failed">>
    /\ failed_entries = <<entries[2].cite_key>>

\* C7: for a non-empty input and whatever the index answers, a run that has
\* stopped with the output file writable has processed every entry and has
\* printed a summary with total = succeeded + failed and failed = the number
\* of kept records.
C7_RunCompletes ==
    (Stopped /\ entries # <<>> /\ pc # "write_failed") =>
        /\ pc = "done"
        /\ i = Len(entries)
        /\ report # Unset
        /\ report.total = report.successful + report.failed
        /\ report.failed = Count(outcomes, "no_title") + Count(outcomes, "no_results")
                           + Count(outcomes, "download_failed")

\* C8: a search makes at most max_retries attempts, waits between every two
\* consecutive attempts, returns None once max_retries attempts have failed,
\* and returns no candidate from an attempt that failed.
C8_SearchRetries ==
    /\ Count(slog, "phrase") <= max_retries
    /\ \A p, q \in DOMAIN slog :
         (p < q /\ slog[p] = "phrase" /\ slog[q] = "phrase")
         => \E r \in (p + 1)..(q - 1) : slog[r] = "sleep"
    /\ Count(slog, "fail") = max_retries => (pc = "search_ret" /\ result = None)
    /\ IsValue(result) =>
         \A p \in DOMAIN slog :
            slog[p] = "fail" => \E q \in (p + 1)..Len(slog) : slog[q] = "phrase"

C8_Witness ==
    /\ pc = "search_ret"
    /\ Count(slog, "fail") = max_retries
    /\ Count(slog, "plain") >= 1
    /\ Count(slog, "sleep") = max_retries - 1

\* C9: a search all of whose requests succeeded has waited the rate-limit
\* delay exactly once when it returns, whatever its result.
C9_OneDelayPerSearch ==
    (pc = "search_ret" /\ slog # <<>> /\ Count(slog, "fail") = 0)
    => Count(slog, "sleep") = 1

\* C10: the download makes at most max_retries attempts, waits the delay
\* between every two consecutive attempts, and returns None after all its
\* attempts have failed.
C10_DownloadRetries ==
    /\ Count(dlog, "get") <= max_retries
    /\ \A p, q \in DOMAIN dlog :
         (p < q /\ dlog[p] = "get" /\ dlog[q] = "get")
         => \E r \in (p + 1)..(q - 1) : dlog[r] = "sleep"
    /\ Count(dlog, "fail") = max_retries
       => (pc = "download_ret" /\ updated_entry = None)

\* ------------------------------------------------------------------------
\* C11: a retrieval that cannot succeed is not retried.  A candidate without
\* a url makes the download return None with no request made at all; a body
\* received without any record in it (an empty body included) makes it
\* return None at once, the request that received the body being the last of
\* the call, however many attempts remain.
\* ------------------------------------------------------------------------
NoRecords(body) == \A k \in 1..Len(body) : body[k].kind # "entry"

C11_PermanentFailureNotRetried ==
    /\ (IsValue(hit) /\ hit.url = <<>>) =>
           /\ pc # "download"
           /\ dlog = <<>>
           /\ response = Unset
           /\ updated_entry = None
    /\ (response # Unset /\ NoRecords(response.body)) =>
           /\ pc = "download_ret"
           /\ updated_entry = None
           /\ dlog # <<>> /\ dlog[Len(dlog)] = "get"
           /\ Count(dlog, "get") = dl_attempt + 1

\* a body without a record received on the second attempt, one attempt left
C11_Witness ==
    /\ pc = "download_ret"
    /\ response # Unset /\ response.body # <<>> /\ NoRecords(response.body)
    /\ dl_attempt = 1
    /\ retry_allowed(dl_attempt)
    /\ updated_entry = None

\* ------------------------------------------------------------------------
\* C12: no request is made for a title that is empty or only whitespace.
\* search_by_title given such a title returns None with no request and no
\* delay; main, for an entry whose extracted title is empty, keeps the record
\* and lists its key as failed, calling neither the search nor the download.
\* ------------------------------------------------------------------------
BlankText(text) == \A k \in 1..Len(text) : text[k] \in Whitespace

C12_NoRequestForBlankTitle ==
    /\ (search_calls = 1 /\ BlankText(title)) =>
           /\ slog = <<>>
           /\ last_req = 0
           /\ pc \in {"search_call", "search_ret", "returned"}
           /\ pc = "search_ret" => result = None
           /\ pc = "returned" => hit = None
    /\ \A j \in 1..Len(outcomes) :
           BlankText(get_title(entries[j])) =>
               /\ outcomes[j] = "no_title"
               /\ updated_entries[j] = entries[j]
               /\ \E f \in 1..Len(failed_entries) :
                      failed_entries[f] = entries[j].cite_key
    /\ (i >= 1 /\ BlankText(get_title(entries[i]))) =>
           /\ Len(outcomes) = i
           /\ search_calls = 0 /\ dl_calls = 0
           /\ slog = <<>> /\ dlog = <<>>
           /\ last_req < i

\* search_by_title has returned for a title of a space and a line break
C12_Witness ==
    /\ pc = "returned"
    /\ title = <<" ", "\n">>
    /\ hit = None
    /\ slog = <<>>

\* ------------------------------------------------------------------------
\* C13: the records are resolved one at a time in input order.  A step makes
\* at most one request, and makes it for the record the loop is at; the loop
\* moves on by one record, and only from between two iterations, when every
\* call made for the record has returned; no request is ever made for a
\* record that comes before one a request was already made for.
\* ------------------------------------------------------------------------
ReqCount == Count(slog, "phrase") + Count(slog, "plain") + Count(dlog, "get")

C13_OneAtATimeInOrder ==
    /\ [](last_req <= i /\ (ReqCount > 0 => last_req = i))
    /\ [][ /\ last_req' >= last_req
           /\ ReqCount' > ReqCount =>
                  (ReqCount' = ReqCount + 1 /\ i' = i /\ last_req' = i)
           /\ last_req' # last_req => ReqCount' > ReqCount
           /\ i' # i =>
                  (i' = i + 1 /\ pc = "loop" /\ ReqCount = 0 /\ ReqCount' = 0) ]_vars

\* a request made for the second record after the first record was replaced
C13_Witness ==
    /\ i = 2
    /\ last_req = 2
    /\ ReqCount > 1
    /\ outcomes = <<"replaced">>

\* ------------------------------------------------------------------------
\* C17: resolving never changes an input record.  The parsed records stay
\* as they were parsed; a record that is kept goes to the output as it was
\* parsed; the one change ever made to a record is the key given to the
\* record freshly parsed from a retrieved body, which otherwise is the first
\* record of that body.
\* ------------------------------------------------------------------------
FirstRecord(body) ==
    body[CHOOSE k \in 1..Len(body) :
            /\ body[k].kind = "entry"
            /\ \A m \in 1..(k - 1) : body[m].kind # "entry"]

C17_InputRecordsUntouched ==
    /\ [][entries' = entries]_vars
    /\ [](\A j \in 1..Len(outcomes) :
             outcomes[j] # "replaced" =>
                 /\ updated_entries[j] = entries[j]
                 /\ pc = "done" =>
                        outfile[j] = to_bibtex(entries[j]) \o <<"\n", "\n">>)
    /\ []((pc = "download_ret" /\ IsValue(updated_entry)) =>
             /\ response # Unset
             /\ ~NoRecords(response.body)
             /\ updated_entry.cite_key = entries[i].cite_key
             /\ updated_entry.fields = FirstRecord(response.body).fields
             /\ updated_entry.entry_type = lower(FirstRecord(response.body).entry_type))

\* a run that replaced its first record and kept its second has written both
C17_Witness ==
    /\ pc = "done"
    /\ outcomes = <<"replaced", "download_failed">>
    /\ updated_entries[2] = entries[2]
    /\ updated_entries[1] # entries[1]

\* ------------------------------------------------------------------------
\* C18: within one attempt of a search the phrase query comes first; the
\* plain query is made exactly when the phrase query succeeded with no
\* result, and at most once; a plain query with no result ends the search
\* with None; a phrase query with a result is followed by no other request.
\* (A query is the last event of the log when it succeeded, or when its
\* response raised the exception that ends the run.)
\* ------------------------------------------------------------------------
ZeroResults(hl) == IsValue(hl) /\ Len(hl.items) = 0

LastEvent(log) == IF log = <<>> THEN "" ELSE log[Len(log)]

C18_PhraseThenPlain ==
    /\ slog # <<>> => slog[1] = "phrase"
    /\ \A p \in 2..Len(slog) :
           /\ slog[p] = "plain" => slog[p - 1] = "phrase"
           /\ slog[p] = "phrase" => slog[p - 1] = "sleep"
           /\ slog[p] = "sleep" => slog[p - 1] \in {"fail", "phrase", "plain"}
    /\ pc = "search_plain" =>
           (LastEvent(slog) = "phrase" /\ ZeroResults(hit_list))
    /\ (LastEvent(slog) = "phrase" /\ ZeroResults(hit_list) /\ pc # "crashed") =>
           pc = "search_plain"
    /\ (LastEvent(slog) = "phrase" /\ ~ZeroResults(hit_list)) =>
           pc \in {"search_ratelimit", "crashed"}
    /\ (LastEvent(slog) = "plain" /\ ZeroResults(hit_list) /\ pc # "crashed") =>
           (pc = "search_ret" /\ result = None)
    /\ (LastEvent(slog) = "plain" /\ ~ZeroResults(hit_list)) =>
           pc \in {"search_ratelimit", "crashed"}

\* a second attempt in which both queries succeeded without a result
C18_Witness ==
    /\ pc = "search_ret"
    /\ slog = <<"phrase", "fail", "sleep", "phrase", "plain">>
    /\ ZeroResults(hit_list)
    /\ result = None

\* ------------------------------------------------------------------------
\* C20: one search makes at most 2 * max_retries requests and one download
\* at most max_retries, and for any finite input and any outcomes of the
\* requests the resolution loop reaches its end: a run that has stopped on
\* a non-empty input has been through every entry.
\* ------------------------------------------------------------------------
RequestsBounded ==
    /\ Count(slog, "phrase") + Count(slog, "plain") <= 2 * max_retries
    /\ Count(dlog, "get") <= max_retries

C20_BoundedAndLoopEnds ==
    /\ RequestsBounded
    /\ (Stopped /\ entries # <<>>) => (LoopOver /\ i = Len(entries))

\* ------------------------------------------------------------------------
\* C14: what _balance_braces returns has as many closing as opening braces
\* and no prefix with more closing than opening ones, for any text; so the
\* booktitle value that to_bibtex writes, cut at its first comma, is
\* brace-balanced.
\* ------------------------------------------------------------------------
Opens(text, n) == Cardinality({k \in 1..n : text[k] = "{"})
Closes(text, n) == Cardinality({k \in 1..n : text[k] = "}"})

Balanced(text) ==
    /\ Opens(text, Len(text)) = Closes(text, Len(text))
    /\ \A n \in 0..Len(text) : Opens(text, n) >= Closes(text, n)

\* the text cut at every line break
RECURSIVE SplitLines(_, _)
SplitLines(text, line) ==
    IF text = <<>> THEN <<line>>
    ELSE IF Head(text) = "\n"
         THEN <<line>> \o SplitLines(Tail(text), <<>>)
         ELSE SplitLines(Tail(text), Append(line, Head(text)))

\* the value written on a field line: what follows " = ", less the last comma
WrittenValue(line) ==
    LET eq == CHOOSE k \in 1..Len(line) :
                  /\ SubSeq(line, k, k + 2) = <<" ", "=", " ">>
                  /\ \A m \in 1..(k - 1) : SubSeq(line, m, m + 2) # <<" ", "=", " ">>
    IN SubSeq(line, eq + 3, Len(line) - 1)

C14_BalancedOutput ==
    /\ pc = "balanced" => Balanced(probe_out.text)
    /\ pc = "booktitle" =>
           LET lines == SplitLines(probe_out.text, <<>>)
           IN /\ Len(lines) = 3 <=> probe_in.text # <<>>
              /\ Len(lines) = 3 =>
                     /\ Balanced(WrittenValue(lines[2]))
                     /\ ~Contains(WrittenValue(lines[2]), <<",">>)

\* a text with a stray closing brace and an unmatched opening one
C14_Witness ==
    /\ pc = "balanced"
    /\ probe_in.text = <<"}", "{", "a">>
    /\ probe_out.text = <<"{", "a", "}">>

\* ------------------------------------------------------------------------
\* C15: the field names to_bibtex writes are author, title, booktitle,
\* journal, year, pages, volume, number and no other, in that order, and
\* one of these is written exactly when the record has it with a value that
\* is not empty.
\* ------------------------------------------------------------------------
AllowList ==
    <<"author", "title", "booktitle", "journal", "year", "pages", "volume", "number">>

\* the name written on a field line: between the indent and " = "
WrittenName(line) ==
    LET eq == CHOOSE k \in 1..Len(line) :
                  /\ SubSeq(line, k, k + 2) = <<" ", "=", " ">>
                  /\ \A m \in 1..(k - 1) : SubSeq(line, m, m + 2) # <<" ", "=", " ">>
    IN SubSeq(line, 3, eq - 1)

\* the allow-listed names the record has with a value, in allow-list order
NamesDue(entry) ==
    LET Due(k) == k \in DOMAIN entry.fields /\ entry.fields[k] # <<>>
    IN SelectSeq(AllowList, Due)

C15_AllowListedInOrder ==
    pc = "serialized" =>
        LET lines == SplitLines(probe_out.text, <<>>)
            due == NamesDue(probe_in)
        IN /\ Len(lines) = Len(due) + 2
           /\ \A k \in 1..Len(due) :
                  WrittenName(lines[k + 1]) = FieldNameText[due[k]]

\* a record with a field off the list, an empty year and two fields to write
C15_Witness ==
    /\ pc = "serialized"
    /\ DOMAIN probe_in.fields = {"note", "year", "title"}
    /\ probe_in.fields["year"] = <<>>
    /\ probe_in.fields["note"] # <<>>
    /\ probe_in.fields["title"] # <<>>
    /\ Len(SplitLines(probe_out.text, <<>>)) = 3

\* ------------------------------------------------------------------------
\* C19: the clean-up of a field value unwraps at most once: it removes one
\* pair of enclosing quotes or one pair of enclosing braces, never both, so
\* that the value "{X}" keeps its braces.
\* ------------------------------------------------------------------------
QuoteWrapped(text) ==
    Len(text) >= 2 /\ text[1] \in {"\"", "'"} /\ text[Len(text)] \in {"\"", "'"}

BraceWrapped(text) ==
    Len(text) >= 2 /\ text[1] = "{" /\ text[Len(text)] = "}"

Inner(text) == SubSeq(text, 2, Len(text) - 1)

\* the value as matched, less the space around it and a comma that ends it
Trimmed(raw) ==
    LET t == strip(raw)
    IN IF t # <<>> /\ t[Len(t)] = "," THEN SubSeq(t, 1, Len(t) - 1) ELSE t

C19_AtMostOneUnwrapping ==
    pc = "cleaned" =>
        LET base == Trimmed(probe_in.text)
        IN /\ \/ probe_out.text = base
              \/ (QuoteWrapped(base) \/ BraceWrapped(base))
                 /\ probe_out.text = Inner(base)
           /\ (QuoteWrapped(base) /\ BraceWrapped(Inner(base))) =>
                  probe_out.text = Inner(base)

\* ------------------------------------------------------------------------
\* C16: for a record with allow-listed fields only, the text to_bibtex
\* writes, parsed by parse_content, gives one record, and to_bibtex of that
\* record writes the same text again.
\* ------------------------------------------------------------------------
C16_RoundTripIsIdentity ==
    (\A n \in DOMAIN probe_in.fields : \E k \in 1..Len(AllowList) : AllowList[k] = n) =>
        /\ pc = "reparsed" => Len(probe_out.parsed) = 1
        /\ pc = "reserialized" => probe_out.again = probe_out.text

====
